---- MODULE Spec2Model ----
(***************************************************************************)
(* whenwx: event timing of a threshold condition over a forecast series.   *)
(*                                                                         *)
(* Two implementations of the same computation are modelled side by side:  *)
(*   - the on-demand engine of api/src/on_demand.py, a scalar scan over    *)
(*     one point's mask (_compute_first_breach_and_duration,               *)
(*     _compute_next_breach);                                              *)
(*   - the batch engine of backend/src/processors/base.py, the vectorised  *)
(*     WeatherProcessor methods, taken at one grid cell.                   *)
(*                                                                         *)
(* Arrays are functions over 0..n-1, as in the source.  Time coordinates   *)
(* are integers in seconds; durations are hours, obtained from seconds by  *)
(* the source's division by 3600 (coordinates are whole hours, so the      *)
(* division is exact).  An Optional / NaT / NaN-able value is a set with   *)
(* at most one element: {} is None (NaT, NaN), {v} is the value v.         *)
(***************************************************************************)
EXTENDS Integers, FiniteSets, Sequences, TLC

VARIABLES
    mask,                \* breach mask of one location, [0..n-1 -> BOOLEAN]
    time_coords,         \* its time coordinate, [0..n-1 -> seconds], increasing
    coord_kind,          \* dtype of the coordinate: "timedelta64" | "datetime64"
    forecast_init_time,  \* initialization instant of the run, seconds
    od_pc,               \* on-demand computation: "idle" | "done"
    od,                  \* on-demand result (EventMetrics timing fields)
    batch_pc,            \* batch computation: "idle" | "done"
    batch,               \* batch result at this grid cell (compute_metrics)
    values,              \* the loaded sample values, [0..n-1 -> value]
    threshold,           \* the condition's threshold, in ticks
    operator,            \* the condition's operator, as passed by the caller
    batch_mask,          \* the mask WeatherProcessor.compute_mask returned
    od_error,            \* message of the exception the on-demand call raised
    batch_error,         \* message of the exception the batch call raised
    time_series,         \* lead_times_hours and values_display of the result
    now,                 \* datetime.utcnow(), seconds
    token_set,           \* ARRAYLAKE_TOKEN is set in the environment
    upstream_up,         \* the Arraylake repository can be reached and opened
    source_runs,         \* initialization hours of the runs the repository holds
    source_vars,         \* variable names of the repository's dataset
    source_grid_ok,      \* the repository's dataset can be selected by lat/lon
    _arraylake_ds,       \* on_demand._arraylake_ds, the cached dataset handle
    _arraylake_session,  \* on_demand._arraylake_session
    _last_refresh,       \* on_demand._last_refresh
    on_demand_mode,      \* weather_router.ON_DEMAND_MODE
    app_dataset,         \* app.state.dataset, the pre-computed dataset
    req,                 \* the last call made to the API process
    resp,                \* its response
    trace,               \* what the call did on its way
    weather_event_variable, \* config.WEATHER_EVENTS[0].variable
    extra_events,        \* the events configured after the first one
    output_ds,           \* the dataset process_forecast exported, if any
    output_path,         \* the path process_forecast returned, if any
    process_log,         \* what the last process_forecast raised or logged
    last_processed_blob, \* content of last_processed.json in the bucket, if any
    gcs_up,              \* the bucket can be reached
    latest_commit,       \* timestamp of the latest commit on main, if any
    check_out,           \* what the last run of check_new_data printed
    tasks                \* the requests the API's event loop has accepted

\* the series and the two engines' results
engineVars == <<mask, time_coords, coord_kind, forecast_init_time,
                od_pc, od, batch_pc, batch>>

\* the condition and its evaluation
evalVars == <<values, threshold, operator, batch_mask, od_error, batch_error,
              time_series>>

\* the upstream repository and the process environment
sourceVars == <<token_set, upstream_up, source_runs, source_vars, source_grid_ok>>

\* the module-level cache of on_demand.py
cacheVars == <<_arraylake_ds, _arraylake_session, _last_refresh>>

\* the API process
apiVars == <<now, sourceVars, cacheVars, on_demand_mode, app_dataset,
             req, resp, trace>>

\* the batch pipeline's configuration and the outcome of its last run
batchVars == <<weather_event_variable, extra_events, output_ds, output_path,
               process_log>>

\* the new-data check of the scheduled workflow
checkVars == <<last_processed_blob, gcs_up, latest_commit, check_out>>

\* the requests in flight in the API process
concVars == <<tasks>>

vars == <<engineVars, evalVars, apiVars, batchVars, checkVars, concVars>>

----------------------------------------------------------------------------
(* Bounds of the model *)

MaxLen == 8          \* longest series
MaxHour == 7         \* coordinates are drawn from hours 0..MaxHour
MaxInitHour == 1     \* initialization instants are hours 0..MaxInitHour

(* Program constant: seconds in an hour, the divisor of total_seconds() *)
SecondsPerHour == 3600

----------------------------------------------------------------------------
(* Values *)

None == {}
NaT == {}
NaN == {}
Some(v) == {v}

len(a) == Cardinality(DOMAIN a)

Min(S) == CHOOSE x \in S : \A y \in S : x <= y

\* np.where(mask)[0]: the indices holding True (ascending in the source)
true_indices(m) == {i \in DOMAIN m : m[i]}

----------------------------------------------------------------------------
(* On-demand engine: api/src/on_demand.py *)

\* isinstance(time_val, np.timedelta64)
is_timedelta64 == coord_kind = "timedelta64"

\* the conversion of a time coordinate to a datetime
to_datetime(time_val, init_time) ==
    IF is_timedelta64 THEN init_time + time_val ELSE time_val

\* pd.Timedelta(end - start).total_seconds() / 3600, and the Timestamp
\* variant, which subtracts the same two coordinates
elapsed_hours(start_time_val, end_time_val) ==
    (end_time_val - start_time_val) \div SecondsPerHour

\* mutant of scan_while_true: the contiguous run is not followed, the episode
\* is taken to end right after its first sample
scan_no_loop(m, end_idx) == end_idx

\* while end_idx < len(mask) and mask[end_idx]: end_idx += 1
RECURSIVE scan_while_true(_, _)
scan_while_true(m, end_idx) ==
    IF end_idx < len(m) /\ m[end_idx]
    THEN scan_while_true(m, end_idx + 1)
    ELSE end_idx

\* mutant of duration_to: the duration is the count of timesteps of the
\* episode, taken as hours, instead of the elapsed time between coordinates
duration_to_steps(m_coords, start_idx, end_idx) ==
    IF end_idx < len(m_coords)
    THEN end_idx - start_idx
    ELSE (len(m_coords) - 1) - start_idx

\* the duration branch shared by both on-demand functions
duration_to(m_coords, start_idx, end_idx) ==
    IF end_idx < len(m_coords)
    THEN elapsed_hours(m_coords[start_idx], m_coords[end_idx])
    ELSE elapsed_hours(m_coords[start_idx], m_coords[len(m_coords) - 1])

_compute_first_breach_and_duration(m, coords, init_time) ==
    IF true_indices(m) = {}
    THEN [first_breach_time |-> None, duration |-> None, end_idx |-> len(m)]
    ELSE LET first_idx == Min(true_indices(m))
             end_idx == scan_while_true(m, first_idx + 1)
         IN  [first_breach_time |-> Some(to_datetime(coords[first_idx], init_time)),
              duration |-> Some(duration_to(coords, first_idx, end_idx)),
              end_idx |-> end_idx]

\* mutant of _compute_next_breach: the index found in the remaining slice is
\* not adjusted back to the full array
_compute_next_breach_unadjusted(m, coords, init_time, first_end_idx) ==
    LET remaining == {i \in true_indices(m) : i >= first_end_idx}
    IN  IF remaining = {}
        THEN [next_breach_time |-> None, duration |-> None]
        ELSE LET next_idx == Min(remaining) - first_end_idx
                 next_end_idx == scan_while_true(m, next_idx + 1)
             IN  [next_breach_time |-> Some(to_datetime(coords[next_idx], init_time)),
                  duration |-> Some(duration_to(coords, next_idx, next_end_idx))]

_compute_next_breach(m, coords, init_time, first_end_idx) ==
    LET remaining == {i \in true_indices(m) : i >= first_end_idx}
    IN  IF remaining = {}
        THEN [next_breach_time |-> None, duration |-> None]
        ELSE LET next_idx == Min(remaining)
                 next_end_idx == scan_while_true(m, next_idx + 1)
             IN  [next_breach_time |-> Some(to_datetime(coords[next_idx], init_time)),
                  duration |-> Some(duration_to(coords, next_idx, next_end_idx))]

\* the timing part of compute_event_metrics
compute_event_metrics(m, coords, init_time) ==
    LET first == _compute_first_breach_and_duration(m, coords, init_time)
        nxt == _compute_next_breach(m, coords, init_time, first.end_idx)
    IN  [first_breach_time |-> first.first_breach_time,
         duration_hours |-> first.duration,
         next_breach_time |-> nxt.next_breach_time,
         next_duration_hours |-> nxt.duration]

----------------------------------------------------------------------------
(* Batch engine: backend/src/processors/base.py, at one grid cell *)

\* mask.any(dim=time_dim)
any(b) == \E i \in DOMAIN b : b[i]

\* mutant of argmax: the last True is taken instead of the first
argmax_last(b) ==
    IF any(b)
    THEN CHOOSE x \in true_indices(b) : \A y \in true_indices(b) : y <= x
    ELSE 0

\* argmax of a boolean array: the first True, index 0 when there is none
argmax(b) == IF any(b) THEN Min(true_indices(b)) ELSE 0

\* idxmax: the coordinate at argmax
idxmax(b, coords) == coords[argmax(b)]

\* mutant of compute_first_breach: idxmax is not masked where the condition
\* is never met
compute_first_breach_unmasked(m, coords) ==
    Some(idxmax(m, coords))

compute_first_breach(m, coords) ==
    IF any(m) THEN Some(idxmax(m, coords)) ELSE NaT

\* mutant of compute_duration: the duration is not masked where the
\* condition is never met
compute_duration_unmasked(m, timestep_hours) ==
    LET first_idx == argmax(m)
        n_times == len(m)
        not_mask_after == [i \in DOMAIN m |-> ~m[i] /\ i > first_idx]
        ever_ends == any(not_mask_after)
        end_idx == IF ever_ends THEN argmax(not_mask_after) ELSE n_times
        duration_steps == end_idx - first_idx
        duration_hours == duration_steps * timestep_hours
    IN  [duration_hours |-> Some(duration_hours),
         end_idx |-> end_idx]

compute_duration(m, timestep_hours) ==
    LET first_idx == argmax(m)
        n_times == len(m)
        not_mask_after == [i \in DOMAIN m |-> ~m[i] /\ i > first_idx]
        ever_ends == any(not_mask_after)
        end_idx == IF ever_ends THEN argmax(not_mask_after) ELSE n_times
        duration_steps == end_idx - first_idx
        duration_hours == duration_steps * timestep_hours
    IN  [duration_hours |-> IF any(m) THEN Some(duration_hours) ELSE NaN,
         end_idx |-> end_idx]

compute_next_breach(m, coords, first_end_idx, timestep_hours) ==
    LET n_times == len(m)
        mask_after == [i \in DOMAIN m |-> m[i] /\ i >= first_end_idx]
        has_next == any(mask_after)
        next_idx == argmax(mask_after)
        not_mask_after_next == [i \in DOMAIN m |-> ~m[i] /\ i > next_idx]
        ever_ends_next == any(not_mask_after_next)
        next_end_idx == IF ever_ends_next THEN argmax(not_mask_after_next)
                                          ELSE n_times
        next_duration_steps == next_end_idx - next_idx
        next_duration_hours == next_duration_steps * timestep_hours
    IN  [next_breach_time |-> IF has_next THEN Some(idxmax(mask_after, coords))
                                          ELSE NaT,
         next_duration_hours |-> IF has_next THEN Some(next_duration_hours)
                                             ELSE NaN]

\* the timestep auto-detection of compute_metrics: the first interval of the
\* coordinate, 1.0 for a coordinate of a single sample
detect_timestep_hours(coords) ==
    IF len(coords) > 1
    THEN (coords[1] - coords[0]) \div SecondsPerHour
    ELSE 1

compute_metrics(m, coords) ==
    LET timestep_hours == detect_timestep_hours(coords)
        first_breach == compute_first_breach(m, coords)
        dur == compute_duration(m, timestep_hours)
        nxt == compute_next_breach(m, coords, dur.end_idx, timestep_hours)
    IN  [first_breach_time |-> first_breach,
         duration_hours |-> dur.duration_hours,
         next_breach_time |-> nxt.next_breach_time,
         next_duration_hours |-> nxt.next_duration_hours]

----------------------------------------------------------------------------
(* Condition evaluation: the operator chain of compute_event_metrics         *)
(* (on_demand.py) and of WeatherProcessor.compute_mask (base.py).            *)
(*                                                                           *)
(* A sample value is [kind |-> "num", v |-> ticks] or the missing value      *)
(* [kind |-> "nan", v |-> 0].  A tick is a quarter of 1e-6 of the storage    *)
(* unit, fine enough for the 1e-6 tolerance of eq.                           *)

TicksPerUnit == 4 * 1000000

\* the 1e-6 of np.abs(data - threshold) < 1e-6
Tolerance == TicksPerUnit \div 1000000

Num(t) == [kind |-> "num", v |-> t]
Missing == [kind |-> "nan", v |-> 0]

\* +inf: it compares as a value above every threshold
Infinity == [kind |-> "inf", v |-> 2000 * 1000000]

Abs(x) == IF x < 0 THEN 0 - x ELSE x

\* mutant of np_le: <= evaluated as <
np_le_strict(x, thr) == x.kind # "nan" /\ x.v < thr

\* the element-wise numpy comparisons; every comparison with NaN is False
np_lt(x, thr) == x.kind # "nan" /\ x.v < thr
np_gt(x, thr) == x.kind # "nan" /\ x.v > thr
np_le(x, thr) == x.kind # "nan" /\ x.v <= thr
np_ge(x, thr) == x.kind # "nan" /\ x.v >= thr
np_abs_diff_lt(x, thr, tol) == x.kind # "nan" /\ Abs(x.v - thr) < tol

\* np.isfinite
np_isfinite(x) == x.kind = "num"

\* round(x, 2) of a value in ticks, as hundredths of a unit: the nearest
\* hundredth, the even one on a tie
round2(t) ==
    LET step == TicksPerUnit \div 100
        q == t \div step
        r == t % step
    IN  IF 2 * r < step THEN q
        ELSE IF 2 * r > step THEN q + 1
        ELSE IF q % 2 = 0 THEN q ELSE q + 1

\* 273.15 K in ticks, the offset of the Celsius scale
ZeroCelsius == 27315 * (TicksPerUnit \div 100)

\* pairs (lead time, value) with a value that is not None, in order
RECURSIVE paired_from(_, _, _)
paired_from(lead, disp, i) ==
    IF i >= len(lead) \/ i >= len(disp)
    THEN <<>>
    ELSE (IF disp[i] # {} THEN <<(<<lead[i], disp[i]>>)>> ELSE <<>>)
         \o paired_from(lead, disp, i + 1)

\* a filter that blanks the values only and keeps every lead time
build_time_series_unpaired(data, coords, variable, timedelta) ==
    LET lead == [i \in DOMAIN coords |->
                    IF timedelta THEN coords[i] \div SecondsPerHour ELSE coords[i]]
        disp == [i \in DOMAIN data |->
                    IF np_isfinite(data[i])
                    THEN {IF variable \in {"2t", "t2m", "2m_temperature"}
                          THEN round2(data[i].v - ZeroCelsius)
                          ELSE round2(data[i].v)}
                    ELSE {}]
        paired == paired_from(lead, disp, 0)
    IN  [lead_times_hours |-> [k \in 1..len(lead) |-> lead[k - 1]],
         values_display |-> [k \in 1..Len(paired) |-> paired[k][2]]]

\* compute_event_metrics: "Build time series for charting"; the display
\* values are hundredths of the display unit, None is the empty set
build_time_series(data, coords, variable, timedelta) ==
    LET lead == [i \in DOMAIN coords |->
                    IF timedelta THEN coords[i] \div SecondsPerHour ELSE coords[i]]
        disp == [i \in DOMAIN data |->
                    IF np_isfinite(data[i])
                    THEN {IF variable \in {"2t", "t2m", "2m_temperature"}
                          THEN round2(data[i].v - ZeroCelsius)
                          ELSE round2(data[i].v)}
                    ELSE {}]
        paired == paired_from(lead, disp, 0)
    IN  [lead_times_hours |-> [k \in 1..Len(paired) |-> paired[k][1]],
         values_display |-> [k \in 1..Len(paired) |-> paired[k][2]]]

Raised(msg) == [error |-> msg, mask |-> <<>>]
Returned(m) == [error |-> "", mask |-> m]

\* compute_event_metrics: "Compute the mask based on operator"
od_mask(data, thr, op) ==
    IF op = "lt" THEN Returned([i \in DOMAIN data |-> np_lt(data[i], thr)])
    ELSE IF op = "gt" THEN Returned([i \in DOMAIN data |-> np_gt(data[i], thr)])
    ELSE IF op = "lte" THEN Returned([i \in DOMAIN data |-> np_le(data[i], thr)])
    ELSE IF op = "gte" THEN Returned([i \in DOMAIN data |-> np_ge(data[i], thr)])
    ELSE IF op = "eq"
        THEN Returned([i \in DOMAIN data |-> np_abs_diff_lt(data[i], thr, Tolerance)])
    ELSE Raised("Unknown operator")

\* WeatherProcessor.compute_mask
compute_mask(data, thr, op) ==
    IF op = "lt" THEN Returned([i \in DOMAIN data |-> np_lt(data[i], thr)])
    ELSE IF op = "gt" THEN Returned([i \in DOMAIN data |-> np_gt(data[i], thr)])
    ELSE IF op = "lte" THEN Returned([i \in DOMAIN data |-> np_le(data[i], thr)])
    ELSE IF op = "gte" THEN Returned([i \in DOMAIN data |-> np_ge(data[i], thr)])
    ELSE IF op = "eq"
        THEN Returned([i \in DOMAIN data |-> np_abs_diff_lt(data[i], thr, Tolerance)])
    ELSE Raised("Unknown operator")

----------------------------------------------------------------------------
(* The state machine: one series, evaluated by each engine *)

\* the strictly increasing coordinate over the hours of S
SortedCoords(S) ==
    [i \in 0..(Cardinality(S) - 1) |->
        SecondsPerHour * (CHOOSE h \in S : Cardinality({g \in S : g < h}) = i)]

NoResult ==
    [first_breach_time |-> None, duration_hours |-> None,
     next_breach_time |-> None, next_duration_hours |-> None]

NoDataset == [vars |-> {}, grid_ok |-> FALSE]
NoReq == [op |-> "", lat |-> 0, lon |-> 0, event_id |-> "", at |-> 0]
NoResp == [status |-> 0]
NoTrace ==
    [contacted |-> FALSE, loaded |-> FALSE, failed_at |-> "",
     cache_before |-> <<{}, {}, {}>>]

\* the API process is not running
ApiIdle ==
    /\ now = 0
    /\ token_set = TRUE
    /\ upstream_up = TRUE
    /\ source_runs = {}
    /\ source_vars = {}
    /\ source_grid_ok = TRUE
    /\ _arraylake_ds = {}
    /\ _arraylake_session = {}
    /\ _last_refresh = {}
    /\ on_demand_mode = TRUE
    /\ app_dataset = NoDataset
    /\ req = NoReq
    /\ resp = NoResp
    /\ trace = NoTrace

\* the batch pipeline has not run
NoLog ==
    [called |-> FALSE, use_mock |-> FALSE, local_output |-> FALSE,
     raised |-> "", errors |-> {}, fetched_runs |-> {}, fetched_vars |-> {},
     upstream_lost |-> FALSE, target_before |-> {}]

BatchIdle ==
    /\ weather_event_variable = "t2m"
    /\ extra_events = <<>>
    /\ output_ds = {}
    /\ output_path = {}
    /\ process_log = NoLog

\* check_new_data has not run, the bucket is empty, the branch has no commit
NoCheck ==
    [called |-> FALSE, NEW_DATA |-> "", COMMIT_TIME |-> {}, exit_code |-> 0,
     last_processed |-> {}, arraylake_time |-> {}]

CheckIdle ==
    /\ last_processed_blob = {}
    /\ gcs_up = TRUE
    /\ latest_commit = {}
    /\ check_out = NoCheck

\* the API process has accepted no request
ConcIdle == tasks = <<>>

NoSeries == [lead_times_hours |-> <<>>, values_display |-> <<>>]

\* no condition is being evaluated
EvalIdle ==
    /\ time_series = NoSeries
    /\ values = <<>>
    /\ threshold = 0
    /\ operator = "lt"
    /\ batch_mask = <<>>
    /\ od_error = ""
    /\ batch_error = ""

Init ==
    /\ \E S \in SUBSET (0..MaxHour) :
        /\ Cardinality(S) >= 1
        /\ Cardinality(S) <= MaxLen
        /\ time_coords = SortedCoords(S)
        /\ mask \in [0..(Cardinality(S) - 1) -> BOOLEAN]
    /\ coord_kind \in {"timedelta64", "datetime64"}
    /\ forecast_init_time \in {SecondsPerHour * h : h \in 0..MaxInitHour}
    /\ od_pc = "idle"
    /\ od = NoResult
    /\ batch_pc = "idle"
    /\ batch = NoResult
    /\ EvalIdle
    /\ ApiIdle
    /\ BatchIdle
    /\ CheckIdle
    /\ ConcIdle

\* a /query request evaluated on demand for this location
OnDemandQuery ==
    /\ od_pc = "idle"
    /\ od' = compute_event_metrics(mask, time_coords, forecast_init_time)
    /\ od_pc' = "done"
    /\ UNCHANGED <<mask, time_coords, coord_kind, forecast_init_time,
                   batch_pc, batch>>
    /\ UNCHANGED <<evalVars, apiVars, batchVars>>
    /\ UNCHANGED <<checkVars, concVars>>

\* the batch run reaching this grid cell
BatchCompute ==
    /\ batch_pc = "idle"
    /\ batch' = compute_metrics(mask, time_coords)
    /\ batch_pc' = "done"
    /\ UNCHANGED <<mask, time_coords, coord_kind, forecast_init_time,
                   od_pc, od>>
    /\ UNCHANGED <<evalVars, apiVars, batchVars>>
    /\ UNCHANGED <<checkVars, concVars>>

Next == OnDemandQuery \/ BatchCompute

Spec == Init /\ [][Next]_vars

----------------------------------------------------------------------------
(* The state machine of one condition evaluated over one loaded series:     *)
(* the part of compute_event_metrics after the point series is loaded, and  *)
(* WeatherProcessor.compute_mask.  The series comes from the data source    *)
(* as it is: it may be empty, and its coordinate need not be increasing.    *)

MaxEvalLen == 3      \* longest loaded series

\* the operators a caller may pass: the five known ones and an unknown one
Operators == {"lt", "gt", "lte", "gte", "eq", "ne"}

\* 263.15 K, the threshold of the freezing event
FreezingThreshold == 26315 * (TicksPerUnit \div 100)

Kelvin(k) == Num(k * TicksPerUnit)

\* sample values around the threshold, and the missing value
SampleValues ==
    {Missing, Infinity, Kelvin(260), Num(FreezingThreshold - 1),
     Num(FreezingThreshold), Num(FreezingThreshold + 1), Kelvin(265)}

\* the coordinates a source may deliver for n samples: hourly ascending,
\* hourly descending, all equal
CoordShapes(n) ==
    {[i \in 0..(n - 1) |-> SecondsPerHour * i],
     [i \in 0..(n - 1) |-> SecondsPerHour * ((n - 1) - i)],
     [i \in 0..(n - 1) |-> 0]}

\* Scenario C: lt 263.15 over [265, 260, 261, 270] K at hours [0,1,2,3]
ScenarioCValues ==
    [i \in 0..3 |-> Kelvin(IF i = 0 THEN 265 ELSE IF i = 1 THEN 260
                            ELSE IF i = 2 THEN 261 ELSE 270)]

InitEval ==
    /\ \/ \E n \in 0..MaxEvalLen :
            /\ values \in [0..(n - 1) -> SampleValues]
            /\ time_coords \in CoordShapes(n)
            /\ operator \in Operators
       \/ /\ values = ScenarioCValues
          /\ time_coords = [i \in 0..3 |-> SecondsPerHour * i]
          /\ operator = "lt"
    /\ threshold = FreezingThreshold
    /\ mask = <<>>
    /\ coord_kind = "timedelta64"
    /\ forecast_init_time = 0
    /\ od_pc = "idle"
    /\ od = NoResult
    /\ batch_pc = "idle"
    /\ batch = NoResult
    /\ batch_mask = <<>>
    /\ od_error = ""
    /\ batch_error = ""
    /\ time_series = NoSeries
    /\ ApiIdle
    /\ BatchIdle
    /\ CheckIdle
    /\ ConcIdle

\* compute_event_metrics, from the loaded series to the timing fields
EvalOnDemand ==
    /\ od_pc = "idle"
    /\ LET r == od_mask(values, threshold, operator)
       IN  IF r.error # ""
           THEN /\ od_pc' = "raised"
                /\ od_error' = r.error
                /\ UNCHANGED <<mask, od, time_series>>
           ELSE /\ mask' = r.mask
                /\ od' = compute_event_metrics(r.mask, time_coords,
                                               forecast_init_time)
                /\ time_series' = build_time_series(values, time_coords, "2t",
                                                    is_timedelta64)
                /\ od_pc' = "done"
                /\ UNCHANGED od_error
    /\ UNCHANGED <<time_coords, coord_kind, forecast_init_time, batch_pc, batch,
                   values, threshold, operator, batch_mask, batch_error>>
    /\ UNCHANGED <<apiVars, batchVars>>
    /\ UNCHANGED <<checkVars, concVars>>

\* WeatherProcessor.compute_mask over the same values
EvalBatchMask ==
    /\ batch_pc = "idle"
    /\ LET r == compute_mask(values, threshold, operator)
       IN  IF r.error # ""
           THEN /\ batch_pc' = "raised"
                /\ batch_error' = r.error
                /\ UNCHANGED batch_mask
           ELSE /\ batch_mask' = r.mask
                /\ batch_pc' = "masked"
                /\ UNCHANGED batch_error
    /\ UNCHANGED <<mask, time_coords, coord_kind, forecast_init_time, od_pc, od,
                   batch, values, threshold, operator, od_error, time_series>>
    /\ UNCHANGED <<apiVars, batchVars>>
    /\ UNCHANGED <<checkVars, concVars>>

NextEval == EvalOnDemand \/ EvalBatchMask

SpecEval == InitEval /\ [][NextEval]_vars

----------------------------------------------------------------------------
(* The API process: the cached Arraylake handle (on_demand.py), the whole   *)
(* of compute_event_metrics, and the /query handler with its two paths      *)
(* (weather_router.py).                                                     *)

CACHE_TTL_SECONDS == 300

Max(S) == CHOOSE x \in S : \A y \in S : y <= x

\* the grid of the datasets, and the coordinates a request may ask for
GridLats == {0, 2}
GridLons == {0, 2}

\* .sel(..., method='nearest') on one axis: the closest grid value, the
\* larger one on a tie
nearest(grid, x) ==
    CHOOSE g \in grid :
        /\ \A h \in grid : Abs(g - x) <= Abs(h - x)
        /\ \A h \in grid : Abs(h - x) = Abs(g - x) => h <= g

\* the dataset and the session a successful refresh opens now: a snapshot
\* of the repository
OpenedDataset ==
    [opened_at |-> now, runs |-> source_runs, vars |-> source_vars,
     grid_ok |-> source_grid_ok]

OpenedSession == [opened_at |-> now]

\* a refresh condition that already expires the cache at the TTL itself
cache_expired_at_ttl ==
    \/ _arraylake_ds = None
    \/ _last_refresh = None
    \/ \E t \in _last_refresh : now - t >= CACHE_TTL_SECONDS

\* the refresh condition of get_arraylake_dataset
cache_expired ==
    \/ _arraylake_ds = None
    \/ _last_refresh = None
    \/ \E t \in _last_refresh : now - t > CACHE_TTL_SECONDS

\* a get_arraylake_dataset that stamps the refresh time before it connects
get_arraylake_dataset_stamp_first ==
    IF cache_expired
    THEN IF ~token_set
         THEN [error |-> "ARRAYLAKE_TOKEN environment variable not set",
               ds |-> None,
               cache |-> <<_arraylake_ds, _arraylake_session, Some(now)>>,
               contacted |-> FALSE]
         ELSE IF ~upstream_up
         THEN [error |-> "arraylake connection failed",
               ds |-> None,
               cache |-> <<_arraylake_ds, _arraylake_session, Some(now)>>,
               contacted |-> TRUE]
         ELSE [error |-> "",
               ds |-> Some(OpenedDataset),
               cache |-> <<Some(OpenedDataset), Some(OpenedSession), Some(now)>>,
               contacted |-> TRUE]
    ELSE [error |-> "",
          ds |-> _arraylake_ds,
          cache |-> <<_arraylake_ds, _arraylake_session, _last_refresh>>,
          contacted |-> FALSE]

\* get_arraylake_dataset: the value returned or the exception raised, the
\* cache globals after the call, and whether Arraylake was contacted
get_arraylake_dataset ==
    IF cache_expired
    THEN IF ~token_set
         THEN [error |-> "ARRAYLAKE_TOKEN environment variable not set",
               ds |-> None,
               cache |-> <<_arraylake_ds, _arraylake_session, _last_refresh>>,
               contacted |-> FALSE]
         ELSE IF ~upstream_up
         THEN [error |-> "arraylake connection failed",
               ds |-> None,
               cache |-> <<_arraylake_ds, _arraylake_session, _last_refresh>>,
               contacted |-> TRUE]
         ELSE [error |-> "",
               ds |-> Some(OpenedDataset),
               cache |-> <<Some(OpenedDataset), Some(OpenedSession), Some(now)>>,
               contacted |-> TRUE]
    ELSE [error |-> "",
          ds |-> _arraylake_ds,
          cache |-> <<_arraylake_ds, _arraylake_session, _last_refresh>>,
          contacted |-> FALSE]

\* the repository's data: three hourly samples of the variable at a grid
\* point of a run, one of them below the freezing threshold (none when
\* ColdAt is 3), at a place that differs from point to point and run to run
ColdAt(run, lat, lon) == (run + (lat \div 2) + 2 * (lon \div 2)) % 4

SourceData(run, lat, lon) ==
    [i \in 0..2 |-> IF i = ColdAt(run, lat, lon) THEN Kelvin(260) ELSE Kelvin(265)]

StepCoords == [i \in 0..2 |-> SecondsPerHour * i]

NoMetrics ==
    [first_breach_time |-> None, duration_hours |-> None,
     next_breach_time |-> None, next_duration_hours |-> None,
     forecast_init_time |-> None, actual_lat |-> None, actual_lon |-> None]

Failure(msg, stage, got, was_loaded) ==
    [error |-> msg, failed_at |-> stage, metrics |-> NoMetrics,
     cache |-> got.cache, contacted |-> got.contacted, loaded |-> was_loaded]

\* compute_event_metrics(lat, lon, variable, threshold, operator), whole
compute_event_metrics_at(lat, lon, variable, thr, op) ==
    LET got == get_arraylake_dataset
    IN  IF got.error # ""
        THEN Failure(got.error, "dataset", got, FALSE)
        ELSE
        LET ds == CHOOSE d \in got.ds : TRUE
            latest_time == Max(ds.runs)
            init_time == SecondsPerHour * latest_time
        IN  IF ~ds.grid_ok
            THEN Failure("nearest point selection failed", "sel", got, FALSE)
            ELSE
            LET actual_lat == nearest(GridLats, lat)
                actual_lon == nearest(GridLons, lon)
            IN  IF variable \notin ds.vars
                THEN Failure("Variable not found in dataset", "variable", got, FALSE)
                ELSE
                LET data == SourceData(latest_time, actual_lat, actual_lon)
                    m == od_mask(data, thr, op)
                IN  IF m.error # ""
                    THEN Failure(m.error, "operator", got, TRUE)
                    ELSE
                    LET t == compute_event_metrics(m.mask, StepCoords, init_time)
                    IN  [error |-> "", failed_at |-> "",
                         metrics |->
                            [first_breach_time |-> t.first_breach_time,
                             duration_hours |-> t.duration_hours,
                             next_breach_time |-> t.next_breach_time,
                             next_duration_hours |-> t.next_duration_hours,
                             forecast_init_time |-> Some(init_time),
                             actual_lat |-> Some(actual_lat),
                             actual_lon |-> Some(actual_lon)],
                         cache |-> got.cache, contacted |-> got.contacted,
                         loaded |-> TRUE]

\* the event registry of the router; the operator and the threshold of the
\* event are its configuration
EVENTS ==
    [e \in {"freezing"} |->
        [id |-> e, variable |-> "2t", threshold |-> threshold,
         operator |-> operator]]

\* HTTPException(status_code, detail)
HTTPException(code, detail) ==
    [status |-> code, detail |-> detail, latitude |-> None, longitude |-> None,
     timing |-> NoResult, forecastInitTime |-> None]

\* WeatherQueryResponse: instants are kept as seconds, durations as hours
WeatherQueryResponse(lat, lon, timing, init) ==
    [status |-> 200, detail |-> <<>>, latitude |-> lat, longitude |-> lon,
     timing |-> timing, forecastInitTime |-> init]

Trace(contacted, loaded, failed_at) ==
    [contacted |-> contacted, loaded |-> loaded, failed_at |-> failed_at,
     cache_before |-> <<_arraylake_ds, _arraylake_session, _last_refresh>>]

\* an on-demand handler that echoes the requested coordinates
_query_on_demand_echo(lat, lon, event) ==
    LET r == compute_event_metrics_at(lat, lon, event.variable, event.threshold,
                                      event.operator)
    IN  IF r.error # ""
        THEN [resp |-> HTTPException(500, <<"Failed to compute metrics", r.error>>),
              cache |-> r.cache,
              trace |-> Trace(r.contacted, r.loaded, r.failed_at)]
        ELSE [resp |-> WeatherQueryResponse(
                           Some(lat), Some(lon),
                           [first_breach_time |-> r.metrics.first_breach_time,
                            duration_hours |-> r.metrics.duration_hours,
                            next_breach_time |-> r.metrics.next_breach_time,
                            next_duration_hours |-> r.metrics.next_duration_hours],
                           r.metrics.forecast_init_time),
              cache |-> r.cache,
              trace |-> Trace(r.contacted, r.loaded, "")]

_query_on_demand(lat, lon, event) ==
    LET r == compute_event_metrics_at(lat, lon, event.variable, event.threshold,
                                      event.operator)
    IN  IF r.error # ""
        THEN [resp |-> HTTPException(500, <<"Failed to compute metrics", r.error>>),
              cache |-> r.cache,
              trace |-> Trace(r.contacted, r.loaded, r.failed_at)]
        ELSE [resp |-> WeatherQueryResponse(
                           r.metrics.actual_lat, r.metrics.actual_lon,
                           [first_breach_time |-> r.metrics.first_breach_time,
                            duration_hours |-> r.metrics.duration_hours,
                            next_breach_time |-> r.metrics.next_breach_time,
                            next_duration_hours |-> r.metrics.next_duration_hours],
                           r.metrics.forecast_init_time),
              cache |-> r.cache,
              trace |-> Trace(r.contacted, r.loaded, "")]

\* the pre-computed dataset: the batch metrics of run 0 at each grid point
PrecomputedCell(lat, lon) ==
    compute_metrics(od_mask(SourceData(0, lat, lon), FreezingThreshold, "lt").mask,
                    StepCoords)

PrecomputedVar(event_id, name) == <<event_id, name>>

AllPrecomputedVars ==
    {PrecomputedVar("freezing", n) :
        n \in {"first_breach_time", "duration_hours",
               "next_breach_time", "next_duration_hours"}}

\* a pre-computed handler without the check of the required variable
_query_precomputed_unchecked(lat, lon, event, event_id, dataset) ==
    LET unchanged == <<_arraylake_ds, _arraylake_session, _last_refresh>>
    IN  IF ~dataset.grid_ok
        THEN [resp |-> HTTPException(400, <<"Failed to select location",
                                           "nearest point selection failed">>),
              cache |-> unchanged,
              trace |-> Trace(FALSE, FALSE, "sel")]
        ELSE
        LET actual_lat == nearest(GridLats, lat)
            actual_lon == nearest(GridLons, lon)
            cell == PrecomputedCell(actual_lat, actual_lon)
        IN  [resp |-> WeatherQueryResponse(
                          Some(actual_lat), Some(actual_lon),
                          [first_breach_time |-> cell.first_breach_time,
                           duration_hours |-> cell.duration_hours,
                           next_breach_time |-> cell.next_breach_time,
                           next_duration_hours |-> cell.next_duration_hours],
                          None),
             cache |-> unchanged,
             trace |-> Trace(FALSE, TRUE, "")]

_query_precomputed(lat, lon, event, event_id, dataset) ==
    LET unchanged == <<_arraylake_ds, _arraylake_session, _last_refresh>>
    IN  IF PrecomputedVar(event_id, "first_breach_time") \notin dataset.vars
        THEN [resp |-> HTTPException(500, <<"Dataset missing variable",
                                           "first_breach_time">>),
              cache |-> unchanged,
              trace |-> Trace(FALSE, FALSE, "variable")]
        ELSE IF ~dataset.grid_ok
        THEN [resp |-> HTTPException(400, <<"Failed to select location",
                                           "nearest point selection failed">>),
              cache |-> unchanged,
              trace |-> Trace(FALSE, FALSE, "sel")]
        ELSE
        LET actual_lat == nearest(GridLats, lat)
            actual_lon == nearest(GridLons, lon)
            cell == PrecomputedCell(actual_lat, actual_lon)
            field(name) == IF PrecomputedVar(event_id, name) \in dataset.vars
                           THEN cell[name] ELSE None
        IN  [resp |-> WeatherQueryResponse(
                          Some(actual_lat), Some(actual_lon),
                          [first_breach_time |-> cell.first_breach_time,
                           duration_hours |-> field("duration_hours"),
                           next_breach_time |-> field("next_breach_time"),
                           next_duration_hours |-> field("next_duration_hours")],
                          None),
             cache |-> unchanged,
             trace |-> Trace(FALSE, TRUE, "")]

\* a /query handler that validates the event id after the computation
query_weather_timing_late_validation(lat, lon, event_id) ==
    LET event == EVENTS["freezing"]
        r == IF on_demand_mode
             THEN _query_on_demand(lat, lon, event)
             ELSE _query_precomputed(lat, lon, event, "freezing", app_dataset)
    IN  IF event_id \notin DOMAIN EVENTS
        THEN [resp |-> HTTPException(400, <<"Unknown event", event_id>>),
              cache |-> r.cache,
              trace |-> [r.trace EXCEPT !.failed_at = "event"]]
        ELSE r

\* the /query handler
query_weather_timing(lat, lon, event_id) ==
    IF event_id \notin DOMAIN EVENTS
    THEN [resp |-> HTTPException(400, <<"Unknown event", event_id>>),
          cache |-> <<_arraylake_ds, _arraylake_session, _last_refresh>>,
          trace |-> Trace(FALSE, FALSE, "event")]
    ELSE IF on_demand_mode
    THEN _query_on_demand(lat, lon, EVENTS[event_id])
    ELSE _query_precomputed(lat, lon, EVENTS[event_id], event_id, app_dataset)

----------------------------------------------------------------------------
(* The state machine of the API process: calls of get_arraylake_dataset and *)
(* /query requests, while the clock advances and the repository changes.    *)

MaxTime == 460       \* the clock stops here
MaxRun == 1          \* the repository holds runs 0..MaxRun at most

\* the clock advances in steps that put calls at 300 s and at 301 s
ClockSteps == {150, 151}

ReqLats == {0, 1}
ReqLons == {1}
ReqEventIds == {"freezing", "heat"}

\* the engine and the evaluation variables the API process does not use
ApiPinned ==
    /\ mask = <<>>
    /\ time_coords = <<>>
    /\ coord_kind = "timedelta64"
    /\ forecast_init_time = 0
    /\ od_pc = "idle"
    /\ od = NoResult
    /\ batch_pc = "idle"
    /\ batch = NoResult
    /\ values = <<>>
    /\ threshold = FreezingThreshold
    /\ batch_mask = <<>>
    /\ od_error = ""
    /\ batch_error = ""
    /\ time_series = NoSeries

\* the pre-computed datasets the process may have loaded: the batch output,
\* the demo dataset (first breach and duration only), an output without
\* the event, a dataset that cannot be selected by lat/lon
AppDatasets ==
    {[vars |-> AllPrecomputedVars, grid_ok |-> TRUE],
     [vars |-> {PrecomputedVar("freezing", "first_breach_time"),
                PrecomputedVar("freezing", "duration_hours")}, grid_ok |-> TRUE],
     [vars |-> {}, grid_ok |-> TRUE],
     [vars |-> AllPrecomputedVars, grid_ok |-> FALSE]}

InitApi ==
    /\ ApiPinned
    /\ BatchIdle
    /\ now = 0
    /\ source_runs = {0}
    /\ _arraylake_ds = None
    /\ _arraylake_session = None
    /\ _last_refresh = None
    /\ req = NoReq
    /\ resp = NoResp
    /\ trace = NoTrace
    /\ upstream_up \in BOOLEAN
    /\ \/ /\ on_demand_mode = TRUE
          /\ operator \in {"lt", "ne"}
          /\ token_set \in BOOLEAN
          /\ source_vars \in {{"2t"}, {"10u"}}
          /\ source_grid_ok \in BOOLEAN
          /\ app_dataset = NoDataset
       \/ /\ on_demand_mode = FALSE
          /\ operator = "lt"
          /\ token_set = TRUE
          /\ source_vars = {"2t"}
          /\ source_grid_ok = TRUE
          /\ app_dataset \in AppDatasets
    /\ CheckIdle
    /\ ConcIdle

\* time passes
Tick ==
    /\ \E d \in ClockSteps :
        /\ now + d <= MaxTime
        /\ now' = now + d
    /\ UNCHANGED <<engineVars, evalVars, batchVars, sourceVars, cacheVars, on_demand_mode,
                   app_dataset, req, resp, trace>>
    /\ UNCHANGED <<checkVars, concVars>>

\* Arraylake goes down or comes back
UpstreamFlip ==
    /\ upstream_up' = ~upstream_up
    /\ UNCHANGED <<engineVars, evalVars, batchVars, now, token_set, source_runs, source_vars,
                   source_grid_ok, cacheVars, on_demand_mode, app_dataset,
                   req, resp, trace>>
    /\ UNCHANGED <<checkVars, concVars>>

\* a new model run is committed to the repository
PublishRun ==
    /\ Max(source_runs) < MaxRun
    /\ source_runs' = source_runs \cup {Max(source_runs) + 1}
    /\ UNCHANGED <<engineVars, evalVars, batchVars, now, token_set, upstream_up, source_vars,
                   source_grid_ok, cacheVars, on_demand_mode, app_dataset,
                   req, resp, trace>>
    /\ UNCHANGED <<checkVars, concVars>>

\* a call of get_arraylake_dataset()
GetArraylakeDataset ==
    /\ on_demand_mode
    /\ LET r == get_arraylake_dataset
       IN  /\ _arraylake_ds' = r.cache[1]
           /\ _arraylake_session' = r.cache[2]
           /\ _last_refresh' = r.cache[3]
           /\ req' = [op |-> "get_arraylake_dataset", lat |-> 0, lon |-> 0,
                      event_id |-> "", at |-> now]
           /\ resp' = [status |-> 0, error |-> r.error, ds |-> r.ds]
           /\ trace' = Trace(r.contacted, FALSE,
                             IF r.error # "" THEN "dataset" ELSE "")
    /\ UNCHANGED <<engineVars, evalVars, batchVars, now, sourceVars, on_demand_mode,
                   app_dataset>>
    /\ UNCHANGED <<checkVars, concVars>>

\* GET /query?lat=..&lon=..&event_id=..
QueryWeatherTiming ==
    /\ \E lat \in ReqLats : \E lon \in ReqLons : \E event_id \in ReqEventIds :
        LET r == query_weather_timing(lat, lon, event_id)
        IN  /\ _arraylake_ds' = r.cache[1]
            /\ _arraylake_session' = r.cache[2]
            /\ _last_refresh' = r.cache[3]
            /\ req' = [op |-> "query", lat |-> lat, lon |-> lon,
                       event_id |-> event_id, at |-> now]
            /\ resp' = r.resp
            /\ trace' = r.trace
    /\ UNCHANGED <<engineVars, evalVars, batchVars, now, sourceVars, on_demand_mode,
                   app_dataset>>
    /\ UNCHANGED <<checkVars, concVars>>

NextApi ==
    \/ Tick
    \/ UpstreamFlip
    \/ PublishRun
    \/ GetArraylakeDataset
    \/ QueryWeatherTiming

SpecApi == InitApi /\ [][NextApi]_vars

----------------------------------------------------------------------------
(* The batch pipeline: process_forecast over the repository's dataset *)

\* the element of a one-element set: a value computed once and named
TheOne(S) == CHOOSE x \in S : TRUE

\* config.WEATHER_EVENTS: the shipped event, whose variable, threshold and
\* operator are its configuration, and the events configured after it
WEATHER_EVENTS ==
    <<[event_id |-> "freezing", variable |-> weather_event_variable,
       threshold |-> threshold, operator |-> operator]>> \o extra_events

\* 308.15 K, the threshold of a heat event
HeatThreshold == 30815 * (TicksPerUnit \div 100)

\* the second events a configuration may hold
HeatEvents ==
    {[event_id |-> "heat", variable |-> v, threshold |-> HeatThreshold,
      operator |-> op] : v \in {"2t", "t2m"}, op \in {"gt", "ne"}}

\* ingest.create_mock_dataset: '2t' over (time, latitude, longitude), three
\* hours apart, no run axis
MockCoords == [i \in 0..2 |-> 3 * SecondsPerHour * i]

create_mock_dataset ==
    [has_step |-> FALSE, runs |-> {0}, vars |-> {"2t"}, coords |-> MockCoords]

\* ArraylakeDataFetcher.get_latest_forecast: the whole dataset of the branch
get_latest_forecast ==
    IF token_set /\ upstream_up
    THEN [error |-> "",
          ds |-> [has_step |-> TRUE, runs |-> source_runs, vars |-> source_vars,
                  coords |-> StepCoords]]
    ELSE [error |-> "arraylake connection failed",
          ds |-> [has_step |-> TRUE, runs |-> {}, vars |-> {}, coords |-> <<>>]]

\* WeatherProcessor.compute_metrics(ds, time_dim) on the whole dataset: the
\* reductions run along time_dim and keep every other dimension
compute_metrics_ds(ds, variable, thr, op) ==
    LET cells == ds.runs \X GridLats \X GridLons
        mask_at(c) == compute_mask(SourceData(c[1], c[2], c[3]), thr, op)
    IN  IF variable \notin ds.vars
        THEN [error |-> "Variable not found in dataset", runs |-> {}, metrics |-> <<>>]
        ELSE IF \E c \in cells : mask_at(c).error # ""
        THEN [error |-> "Unknown operator", runs |-> {}, metrics |-> <<>>]
        ELSE [error |-> "", runs |-> ds.runs,
              metrics |-> [c \in cells |-> compute_metrics(mask_at(c).mask, ds.coords)]]

\* the data variables of the dataset compute_metrics returns
MetricNames ==
    {"first_breach_time", "duration_hours", "next_breach_time",
     "next_duration_hours"}

\* a loop that keeps an entry in results for an event that failed
process_event_keeps_failed(ds, event_config) ==
    IF event_config.variable # "2t"
    THEN [status |-> "skipped", error |-> "No processor for variable",
          metrics |-> <<>>]
    ELSE TheOne({[status |-> "ok", error |-> r.error, metrics |-> r.metrics] :
                 r \in {compute_metrics_ds(ds, event_config.variable,
                                           event_config.threshold,
                                           event_config.operator)}})

\* one pass of the loop over WEATHER_EVENTS: the event is skipped, fails or
\* enters results
process_event(ds, event_config) ==
    IF event_config.variable # "2t"
    THEN [status |-> "skipped", error |-> "No processor for variable",
          metrics |-> <<>>]
    ELSE TheOne({IF r.error # ""
                 THEN [status |-> "failed", error |-> r.error, metrics |-> <<>>]
                 ELSE [status |-> "ok", error |-> "", metrics |-> r.metrics] :
                 r \in {compute_metrics_ds(ds, event_config.variable,
                                           event_config.threshold,
                                           event_config.operator)}})

\* the merged dataset and its attributes
merge_results(ds, passes) ==
    LET ok == {i \in DOMAIN passes : passes[i].status = "ok"}
        ids == {WEATHER_EVENTS[i].event_id : i \in ok}
    IN  [events_processed |-> ids,
         vars |-> {PrecomputedVar(id, n) : id \in ids, n \in MetricNames},
         runs |-> ds.runs,
         metrics |-> [id \in ids |->
                        passes[CHOOSE i \in ok : WEATHER_EVENTS[i].event_id = id].metrics],
         complete |-> TRUE]

\* what an export leaves at the target when it stops half-way
Partial(ds) == [ds EXCEPT !.complete = FALSE]

\* how an export can end apart from the data source: it succeeds, it fails
\* before the first chunk is written to the target, or after some chunks
ExportOutcomes == {"ok", "fails_before_write", "fails_midway"}

\* export_to_local / GCSExporter.export of the lazily computed dataset: the
\* data is read from the source while the temporary store is written, then
\* rechunked into the target
export(output, target, local_output, source_ok, outcome) ==
    LET cleared == IF local_output THEN None ELSE target
    IN  IF ~source_ok
        THEN [raised |-> "upstream unavailable", target |-> cleared, path |-> None]
        ELSE IF outcome = "fails_before_write"
        THEN [raised |-> "export failed", target |-> cleared, path |-> None]
        ELSE IF outcome = "fails_midway"
        THEN [raised |-> "export failed", target |-> Some(Partial(output)),
              path |-> None]
        ELSE [raised |-> "", target |-> Some(output),
              path |-> Some(IF local_output THEN "local" ELSE "gs")]

\* process_forecast(use_mock, local_output): what it raises, what it logs,
\* what it leaves at the export target and the path it returns
process_forecast(use_mock, local_output, upstream_stays_up, outcome) ==
    LET fetched == IF use_mock
                   THEN [error |-> "", ds |-> create_mock_dataset]
                   ELSE get_latest_forecast
        aborted(raised, errors) ==
            [raised |-> raised, errors |-> errors, upstream_lost |-> raised # "",
             fetched_runs |-> fetched.ds.runs, fetched_vars |-> fetched.ds.vars,
             target |-> output_ds, output_path |-> None]
        \* after the loop over WEATHER_EVENTS, passes holding what each pass did
        after_loop(passes) ==
            LET logged == {passes[i].error : i \in {j \in DOMAIN passes :
                                                      passes[j].status # "ok"}}
                results == {i \in DOMAIN passes : passes[i].status = "ok"}
            IN  IF results = {}
                THEN aborted("", logged \cup {"No events were processed successfully"})
                ELSE
                LET e == export(merge_results(fetched.ds, passes), output_ds,
                                local_output, use_mock \/ upstream_stays_up, outcome)
                IN  [raised |-> e.raised, errors |-> logged,
                     upstream_lost |-> ~(use_mock \/ upstream_stays_up),
                     fetched_runs |-> fetched.ds.runs,
                     fetched_vars |-> fetched.ds.vars,
                     target |-> e.target, output_path |-> e.path]
    IN  IF fetched.error # ""
        THEN aborted(fetched.error, {})
        ELSE TheOne({after_loop(passes) :
                     passes \in {[i \in DOMAIN WEATHER_EVENTS |->
                                    process_event(fetched.ds, WEATHER_EVENTS[i])]}})

InitBatch ==
    /\ ApiPinned
    /\ now = 0
    /\ token_set = TRUE
    /\ upstream_up \in BOOLEAN
    /\ source_runs = {0}
    /\ source_vars \in {{"2t"}, {"10u"}}
    /\ source_grid_ok = TRUE
    /\ _arraylake_ds = None
    /\ _arraylake_session = None
    /\ _last_refresh = None
    /\ on_demand_mode = TRUE
    /\ app_dataset = NoDataset
    /\ req = NoReq
    /\ resp = NoResp
    /\ trace = NoTrace
    /\ weather_event_variable \in {"t2m", "2t"}
    /\ extra_events \in {<<>>} \cup {<<e>> : e \in HeatEvents}
    /\ operator \in {"lt", "ne"}
    /\ output_ds = None
    /\ output_path = None
    /\ process_log = NoLog
    /\ CheckIdle
    /\ ConcIdle

\* one run of process_forecast, during which the data source may go away
ProcessForecast ==
    /\ \E use_mock \in BOOLEAN : \E local_output \in BOOLEAN :
       \E upstream_stays_up \in BOOLEAN : \E outcome \in ExportOutcomes :
        \E r \in {process_forecast(use_mock, local_output, upstream_stays_up,
                                    outcome)} :
            /\ output_ds' = r.target
            /\ output_path' = r.output_path
            /\ process_log' = [called |-> TRUE, use_mock |-> use_mock,
                               local_output |-> local_output,
                               raised |-> r.raised, errors |-> r.errors,
                               fetched_runs |-> r.fetched_runs,
                               fetched_vars |-> r.fetched_vars,
                               upstream_lost |-> r.upstream_lost,
                               target_before |-> output_ds]
            /\ upstream_up' = IF use_mock \/ ~upstream_up THEN upstream_up
                              ELSE upstream_stays_up
    /\ UNCHANGED <<engineVars, evalVars, now, token_set, source_runs, source_vars,
                   source_grid_ok, cacheVars, on_demand_mode, app_dataset,
                   req, resp, trace, weather_event_variable, extra_events>>
    /\ UNCHANGED <<checkVars, concVars>>

NextBatch ==
    \/ UpstreamFlip
    \/ PublishRun
    \/ ProcessForecast

SpecBatch == InitBatch /\ [][NextBatch]_vars

----------------------------------------------------------------------------
(* The new-data check of the scheduled workflow (check_new_data.py): the    *)
(* latest commit on Arraylake against last_processed.json in the bucket.    *)

MaxStamp == 2        \* wall-clock readings are the whole hours 0..MaxStamp

\* a datetime: its wall-clock reading in hours and its UTC offset in hours,
\* None for a naive datetime
Datetime(wall, utcoffset) == [wall |-> wall, utcoffset |-> utcoffset]

UtcOffsets == {None, Some(0), Some(1)}

Datetimes == {Datetime(w, o) : w \in 0..MaxStamp, o \in UtcOffsets}

\* the offset suffix of an ISO 8601 text
OffsetSuffix == (0 :> "+00:00") @@ (1 :> "+01:00")

\* datetime.isoformat(): the wall-clock text followed by the offset suffix,
\* which a naive datetime does not have
isoformat(d) ==
    [text |-> d.wall,
     suffix |-> IF d.utcoffset = None THEN ""
                ELSE OffsetSuffix[CHOOSE o \in d.utcoffset : TRUE]]

\* datetime.fromisoformat(): a text without suffix gives a naive datetime
fromisoformat(s) ==
    Datetime(s.text,
             IF s.suffix = "" THEN None
             ELSE {o \in DOMAIN OffsetSuffix : OffsetSuffix[o] = s.suffix})

\* dt.replace(tzinfo=timezone.utc) applied to a naive datetime only
as_utc_if_naive(d) ==
    IF d.utcoffset = None THEN Datetime(d.wall, Some(0)) ELSE d

\* a > b between two aware datetimes: their UTC instants are compared
aware_gt(a, b) ==
    \E oa \in a.utcoffset : \E ob \in b.utcoffset :
        a.wall - oa > b.wall - ob

\* get_last_processed_time: None when the blob is missing and when reading
\* it raised
get_last_processed_time ==
    IF ~gcs_up THEN None
    ELSE IF last_processed_blob = None THEN None
    ELSE {fromisoformat(b.timestamp) : b \in last_processed_blob}

\* get_arraylake_commit_time: the timestamp of the latest commit, or the
\* exception raised on the way
get_arraylake_commit_time ==
    IF ~upstream_up THEN [error |-> "arraylake connection failed", time |-> None]
    ELSE IF latest_commit = None
    THEN [error |-> "No commits found on branch main", time |-> None]
    ELSE [error |-> "", time |-> latest_commit]

\* what a run printed and the status it exited with
CheckOutput(new_data, commit_time, exit_code) ==
    [NEW_DATA |-> new_data, COMMIT_TIME |-> commit_time, exit_code |-> exit_code]

\* a main that also processes a commit made at the instant last processed
main_not_older ==
    LET last_processed == get_last_processed_time
        fetched == get_arraylake_commit_time
    IN  IF fetched.error # "" THEN CheckOutput("true", None, 0)
        ELSE LET arraylake_time == CHOOSE t \in fetched.time : TRUE
             IN  IF last_processed = None
                 THEN CheckOutput("true", Some(isoformat(arraylake_time)), 0)
                 ELSE LET lp == as_utc_if_naive(CHOOSE t \in last_processed : TRUE)
                          at == as_utc_if_naive(arraylake_time)
                      IN  IF aware_gt(at, lp) \/ ~aware_gt(lp, at)
                          THEN CheckOutput("true", Some(isoformat(at)), 0)
                          ELSE CheckOutput("false", None, 0)

\* main: the lines printed and the exit status
main ==
    LET last_processed == get_last_processed_time
        fetched == get_arraylake_commit_time
    IN  IF fetched.error # "" THEN CheckOutput("true", None, 0)
        ELSE LET arraylake_time == CHOOSE t \in fetched.time : TRUE
             IN  IF last_processed = None
                 THEN CheckOutput("true", Some(isoformat(arraylake_time)), 0)
                 ELSE LET lp == as_utc_if_naive(CHOOSE t \in last_processed : TRUE)
                          at == as_utc_if_naive(arraylake_time)
                      IN  IF aware_gt(at, lp)
                          THEN CheckOutput("true", Some(isoformat(at)), 0)
                          ELSE CheckOutput("false", None, 0)

\* save_processed_time: the blob after the call; a failure to write is
\* logged and swallowed
save_processed_time(timestamp) ==
    IF gcs_up THEN Some([timestamp |-> isoformat(timestamp)])
    ELSE last_processed_blob

InitCheck ==
    /\ ApiPinned
    /\ operator = "lt"
    /\ ApiIdle
    /\ BatchIdle
    /\ ConcIdle
    /\ last_processed_blob = None
    /\ gcs_up \in BOOLEAN
    /\ latest_commit = None
    /\ check_out = NoCheck

\* the bucket becomes unreachable or reachable again
GcsFlip ==
    /\ gcs_up' = ~gcs_up
    /\ UNCHANGED <<last_processed_blob, latest_commit, check_out>>
    /\ UNCHANGED <<engineVars, evalVars, apiVars, batchVars, concVars>>

\* a commit lands on the main branch, later than the one before
Commit ==
    /\ \E d \in Datetimes :
        /\ \A c \in latest_commit : aware_gt(as_utc_if_naive(d), as_utc_if_naive(c))
        /\ latest_commit' = Some(d)
    /\ UNCHANGED <<last_processed_blob, gcs_up, check_out>>
    /\ UNCHANGED <<engineVars, evalVars, apiVars, batchVars, concVars>>

\* the workflow records the commit time it has processed
SaveProcessedTime ==
    /\ \E d \in Datetimes :
        last_processed_blob' = save_processed_time(d)
    /\ UNCHANGED <<gcs_up, latest_commit, check_out>>
    /\ UNCHANGED <<engineVars, evalVars, apiVars, batchVars, concVars>>

\* one run of python -m src.check_new_data
CheckNewData ==
    /\ LET r == main
       IN  check_out' = [called |-> TRUE, NEW_DATA |-> r.NEW_DATA,
                         COMMIT_TIME |-> r.COMMIT_TIME,
                         exit_code |-> r.exit_code,
                         last_processed |-> get_last_processed_time,
                         arraylake_time |-> get_arraylake_commit_time.time]
    /\ UNCHANGED <<last_processed_blob, gcs_up, latest_commit>>
    /\ UNCHANGED <<engineVars, evalVars, apiVars, batchVars, concVars>>

NextCheck ==
    \/ UpstreamFlip
    \/ GcsFlip
    \/ Commit
    \/ SaveProcessedTime
    \/ CheckNewData

SpecCheck == InitCheck /\ [][NextCheck]_vars

----------------------------------------------------------------------------
(* Requests in flight in the API process. uvicorn runs the application on   *)
(* one event loop; the handlers are coroutines, and a coroutine keeps the   *)
(* loop until it awaits something that suspends. The /query handler calls   *)
(* compute_event_metrics, an ordinary function, so from its first line to   *)
(* its response it never gives the loop back, whatever time its calls to    *)
(* Arraylake take.                                                          *)

MaxRequests == 2     \* requests in flight at the same time

Requests == 1..MaxRequests

NoCache == <<None, None, None>>

\* a request the process does not hold
NoTask ==
    [pc |-> "none", op |-> "", behind |-> {}, now |-> 0, seen |-> NoCache,
     opened |-> None, ds |-> None, used |-> None, status |-> 0]

\* the request is inside its handler: its coroutine holds the event loop
InHandler(r) == tasks[r].pc \notin {"none", "arrived", "done"}

loop_busy == \E s \in Requests : InHandler(s)

\* the handler's first steps, up to the refresh condition of
\* get_arraylake_dataset: the task afterwards
enter_handler(r) ==
    LET t == [tasks[r] EXCEPT !.now = now,
                              !.seen = <<_arraylake_ds, _arraylake_session,
                                         _last_refresh>>]
    IN  IF t.op = "health"
        THEN [tasks[r] EXCEPT !.pc = "done", !.status = 200]
        ELSE IF cache_expired
        THEN IF ~token_set
             THEN [t EXCEPT !.pc = "done", !.status = 500]
             ELSE [t EXCEPT !.pc = "open"]
        ELSE [t EXCEPT !.pc = "compute", !.ds = _arraylake_ds]

\* an event loop that starts a handler while another one is inside
\* get_arraylake_dataset or compute_event_metrics
DispatchRequest_preemptive(r) ==
    /\ tasks[r].pc = "arrived"
    /\ tasks' = [tasks EXCEPT ![r] = enter_handler(r)]
    /\ UNCHANGED <<engineVars, evalVars, apiVars, batchVars, checkVars>>

\* the event loop starts the handler of a request it has accepted, once no
\* other handler holds the loop
DispatchRequest(r) ==
    /\ tasks[r].pc = "arrived"
    /\ ~loop_busy
    /\ tasks' = [tasks EXCEPT ![r] = enter_handler(r)]
    /\ UNCHANGED <<engineVars, evalVars, apiVars, batchVars, checkVars>>

InitConc ==
    /\ ApiPinned
    /\ BatchIdle
    /\ CheckIdle
    /\ operator = "lt"
    /\ now = 0
    /\ token_set = TRUE
    /\ upstream_up \in BOOLEAN
    /\ source_runs = {0}
    /\ source_vars = {"2t"}
    /\ source_grid_ok = TRUE
    /\ _arraylake_ds = None
    /\ _arraylake_session = None
    /\ _last_refresh = None
    /\ on_demand_mode = TRUE
    /\ app_dataset = NoDataset
    /\ req = NoReq
    /\ resp = NoResp
    /\ trace = NoTrace
    /\ tasks = [r \in Requests |-> NoTask]

\* a request reaches the server and waits for the event loop
Arrive ==
    /\ \E r \in Requests : \E op \in {"query", "health"} :
        /\ tasks[r].pc = "none"
        /\ tasks' = [tasks EXCEPT ![r] =
                        [NoTask EXCEPT !.pc = "arrived", !.op = op,
                                       !.behind = {s \in Requests : InHandler(s)}]]
    /\ UNCHANGED <<engineVars, evalVars, apiVars, batchVars, checkVars>>

Dispatch == \E r \in Requests : DispatchRequest(r)

\* get_arraylake_dataset connects and opens the store
OpenStore ==
    /\ \E r \in Requests :
        /\ tasks[r].pc = "open"
        /\ tasks' = [tasks EXCEPT ![r] =
                IF ~upstream_up
                THEN [@ EXCEPT !.pc = "done", !.status = 500]
                ELSE [@ EXCEPT !.pc = "store_ds",
                               !.opened = Some(<<[OpenedDataset EXCEPT !.opened_at = tasks[r].now],
                                                 [OpenedSession EXCEPT !.opened_at = tasks[r].now]>>)]]
    /\ UNCHANGED <<engineVars, evalVars, apiVars, batchVars, checkVars>>

\* _arraylake_ds = ds
StoreDs ==
    /\ \E r \in Requests :
        /\ tasks[r].pc = "store_ds"
        /\ _arraylake_ds' = {o[1] : o \in tasks[r].opened}
        /\ tasks' = [tasks EXCEPT ![r].pc = "store_session"]
    /\ UNCHANGED <<engineVars, evalVars, batchVars, checkVars, now, sourceVars,
                   _arraylake_session, _last_refresh, on_demand_mode,
                   app_dataset, req, resp, trace>>

\* _arraylake_session = session
StoreSession ==
    /\ \E r \in Requests :
        /\ tasks[r].pc = "store_session"
        /\ _arraylake_session' = {o[2] : o \in tasks[r].opened}
        /\ tasks' = [tasks EXCEPT ![r].pc = "store_refresh"]
    /\ UNCHANGED <<engineVars, evalVars, batchVars, checkVars, now, sourceVars,
                   _arraylake_ds, _last_refresh, on_demand_mode,
                   app_dataset, req, resp, trace>>

\* _last_refresh = now, then return _arraylake_ds
StoreRefresh ==
    /\ \E r \in Requests :
        /\ tasks[r].pc = "store_refresh"
        /\ _last_refresh' = Some(tasks[r].now)
        /\ tasks' = [tasks EXCEPT ![r].pc = "compute", ![r].ds = _arraylake_ds]
    /\ UNCHANGED <<engineVars, evalVars, batchVars, checkVars, now, sourceVars,
                   _arraylake_ds, _arraylake_session, on_demand_mode,
                   app_dataset, req, resp, trace>>

\* compute_event_metrics selects and loads the point's series through the
\* handle it was given, and the handler answers
Compute ==
    /\ \E r \in Requests :
        /\ tasks[r].pc = "compute"
        /\ tasks' = [tasks EXCEPT ![r].pc = "done",
                                  ![r].used = tasks[r].ds,
                                  ![r].status = IF upstream_up THEN 200 ELSE 500]
    /\ UNCHANGED <<engineVars, evalVars, apiVars, batchVars, checkVars>>

\* the response has been sent
Forget ==
    /\ \E r \in Requests :
        /\ tasks[r].pc = "done"
        /\ tasks' = [s \in Requests |->
                        IF s = r THEN NoTask
                        ELSE [tasks[s] EXCEPT !.behind = @ \ {r}]]
    /\ UNCHANGED <<engineVars, evalVars, apiVars, batchVars, checkVars>>

\* time passes, long enough for a cached handle to expire
Expire ==
    /\ now + CACHE_TTL_SECONDS + 1 <= MaxTime
    /\ now' = now + CACHE_TTL_SECONDS + 1
    /\ UNCHANGED <<engineVars, evalVars, batchVars, checkVars, concVars,
                   sourceVars, cacheVars, on_demand_mode, app_dataset,
                   req, resp, trace>>

NextConc ==
    \/ Expire
    \/ UpstreamFlip
    \/ Arrive
    \/ Dispatch
    \/ OpenStore
    \/ StoreDs
    \/ StoreSession
    \/ StoreRefresh
    \/ Compute
    \/ Forget

SpecConc == InitConc /\ [][NextConc]_vars

----------------------------------------------------------------------------
(* Reference notions of the specification, defined on the mask alone *)

AnyTrue(m) == \E i \in DOMAIN m : m[i]

\* smallest index whose mask value is true
FirstIdx(m) == Min({i \in DOMAIN m : m[i]})

\* first false index after `start`, the series length when there is none
EpisodeEnd(m, start) ==
    Min({i \in DOMAIN m : i > start /\ ~m[i]} \cup {len(m)})

\* index where the first episode ends; the series length without an episode
FirstEndIdx(m) == IF AnyTrue(m) THEN EpisodeEnd(m, FirstIdx(m)) ELSE len(m)

\* the true indices at or after the end of the first episode
NextCandidates(m) == {i \in DOMAIN m : i >= FirstEndIdx(m) /\ m[i]}

NextIdx(m) == Min(NextCandidates(m))

LastIdx(m) == len(m) - 1

\* elapsed time in hours between two coordinates
Elapsed(a, b) == (b - a) \div SecondsPerHour

\* a duration measured to the episode's end index, or to the last sample
EpisodeDuration(m, coords, start) ==
    IF EpisodeEnd(m, start) < len(m)
    THEN Elapsed(coords[start], coords[EpisodeEnd(m, start)])
    ELSE Elapsed(coords[start], coords[LastIdx(m)])

TotalSpan == Elapsed(time_coords[0], time_coords[LastIdx(time_coords)])

\* the offset a reported breach time stands for: on demand a relative
\* coordinate is reported as init time + offset, the batch grid keeps the
\* coordinate itself
OdOffsets(times) ==
    {IF is_timedelta64 THEN t - forecast_init_time ELSE t : t \in times}

OdDone == od_pc = "done"
BatchDone == batch_pc = "done"

AllTrue(m) == \A i \in DOMAIN m : m[i]
AllFalse(m) == \A i \in DOMAIN m : ~m[i]

EvenlySpaced(coords) ==
    \A i \in DOMAIN coords : i > 0 =>
        coords[i] - coords[i - 1] = coords[1] - coords[0]

\* Scenario A: mask [F,F,T,T,F,F,T,F] with hourly offsets 0..7
IsScenarioA ==
    /\ mask = [i \in 0..7 |-> i \in {2, 3, 6}]
    /\ time_coords = [i \in 0..7 |-> SecondsPerHour * i]

----------------------------------------------------------------------------
(* Claims *)

\* C1: for every breach mask of length >= 1 and every strictly increasing
\* offset sequence, the batch computation at one grid cell and the
\* on-demand computation return the same first-breach offset, first
\* duration, next-breach offset and next duration.
C1_ModesAgree ==
    (OdDone /\ BatchDone) =>
        /\ OdOffsets(od.first_breach_time) = batch.first_breach_time
        /\ od.duration_hours = batch.duration_hours
        /\ OdOffsets(od.next_breach_time) = batch.next_breach_time
        /\ od.next_duration_hours = batch.next_duration_hours

\* C2: the first-breach result of the engine (either mode) is non-null if
\* and only if the mask contains at least one true sample, and when
\* non-null it is the offset of the smallest index whose mask value is true.
C2_FirstBreachIffAnyTrue ==
    /\ OdDone =>
        /\ (od.first_breach_time # None) <=> AnyTrue(mask)
        /\ AnyTrue(mask) =>
            OdOffsets(od.first_breach_time) = {time_coords[FirstIdx(mask)]}
    /\ BatchDone =>
        /\ (batch.first_breach_time # NaT) <=> AnyTrue(mask)
        /\ AnyTrue(mask) =>
            batch.first_breach_time = {time_coords[FirstIdx(mask)]}

\* C2 witness: both engines have reported a first breach that is not at
\* index 0, although later samples breach too.
C2_Witness ==
    /\ OdDone /\ BatchDone
    /\ AnyTrue(mask) /\ FirstIdx(mask) > 0
    /\ \E i \in DOMAIN mask : i > FirstIdx(mask) /\ mask[i]
    /\ od.first_breach_time # None /\ batch.first_breach_time # NaT

\* C3: on demand, when a false sample follows the first episode, the first
\* duration is the elapsed time from the offset at first_idx to the offset
\* at first_end_idx, the first false index after first_idx, evenly spaced
\* or not; an isolated true sample followed by a false one has the gap to
\* that false sample as its duration (positive, not a count of samples).
C3_OnDemandFirstDuration ==
    (OdDone /\ AnyTrue(mask) /\ FirstEndIdx(mask) < len(mask)) =>
        /\ od.duration_hours =
              {Elapsed(time_coords[FirstIdx(mask)], time_coords[FirstEndIdx(mask)])}
        /\ \A d \in od.duration_hours : d > 0

\* C3 witness: an isolated true sample followed by a false sample two or
\* more hours later, on a coordinate that is not evenly spaced.
C3_Witness ==
    /\ OdDone /\ AnyTrue(mask)
    /\ FirstEndIdx(mask) = FirstIdx(mask) + 1
    /\ FirstEndIdx(mask) < len(mask)
    /\ ~EvenlySpaced(time_coords)
    /\ \E d \in od.duration_hours : d >= 2

\* C4: in batch mode the first episode's duration_hours equals the elapsed
\* time between the offset at the first-breach index and the offset at the
\* episode's end index, or the last sample's offset when the episode runs
\* to the end of the series, for every strictly increasing offset sequence.
C4_BatchFirstDuration ==
    (BatchDone /\ AnyTrue(mask)) =>
        batch.duration_hours =
            {EpisodeDuration(mask, time_coords, FirstIdx(mask))}

\* C5: next_breach is non-null if and only if some index at or after
\* first_end_idx has a true mask value, and when non-null it is the offset
\* of the smallest such index (either mode).
C5_NextBreachIffLaterTrue ==
    /\ OdDone =>
        /\ (od.next_breach_time # None) <=> (NextCandidates(mask) # {})
        /\ NextCandidates(mask) # {} =>
            OdOffsets(od.next_breach_time) = {time_coords[NextIdx(mask)]}
    /\ BatchDone =>
        /\ (batch.next_breach_time # NaT) <=> (NextCandidates(mask) # {})
        /\ NextCandidates(mask) # {} =>
            batch.next_breach_time = {time_coords[NextIdx(mask)]}

\* C5 witness: a first episode of two or more samples, then a gap, then a
\* second and a third episode; both engines have reported a next breach.
C5_Witness ==
    /\ OdDone /\ BatchDone
    /\ AnyTrue(mask)
    /\ FirstEndIdx(mask) > FirstIdx(mask) + 1
    /\ NextCandidates(mask) # {}
    /\ \E i \in NextCandidates(mask) : EpisodeEnd(mask, NextIdx(mask)) < i
    /\ od.next_breach_time # None /\ batch.next_breach_time # NaT

\* C6: whenever first_breach and next_breach are both non-null, the offset
\* of next_breach is strictly after the offset at which the first episode
\* ends, so at least one non-breaching sample separates the two episodes.
C6_NextAfterFirstEnd ==
    /\ (OdDone /\ od.first_breach_time # None /\ od.next_breach_time # None) =>
        /\ FirstEndIdx(mask) < len(mask)
        /\ \A t \in OdOffsets(od.next_breach_time) :
            /\ t > time_coords[FirstEndIdx(mask)]
            /\ \E i \in DOMAIN mask :
                /\ ~mask[i]
                /\ \A f \in OdOffsets(od.first_breach_time) : f < time_coords[i]
                /\ time_coords[i] < t
    /\ (BatchDone /\ batch.first_breach_time # NaT /\ batch.next_breach_time # NaT) =>
        /\ FirstEndIdx(mask) < len(mask)
        /\ \A t \in batch.next_breach_time :
            /\ t > time_coords[FirstEndIdx(mask)]
            /\ \E i \in DOMAIN mask :
                /\ ~mask[i]
                /\ \A f \in batch.first_breach_time : f < time_coords[i]
                /\ time_coords[i] < t

\* C6 witness: both engines report a first and a next breach, the first
\* episode spanning several samples and exactly one false sample between.
C6_Witness ==
    /\ OdDone /\ BatchDone
    /\ od.first_breach_time # None /\ od.next_breach_time # None
    /\ batch.first_breach_time # NaT /\ batch.next_breach_time # NaT
    /\ FirstEndIdx(mask) > FirstIdx(mask) + 1
    /\ NextIdx(mask) = FirstEndIdx(mask) + 1

\* C7: when a next episode exists, next_duration is the elapsed time from
\* the offset at next_idx to the offset at next_end_idx, the first false
\* index after next_idx, or to the last sample's offset if the next episode
\* runs to the end of the series (either mode); for Scenario A this gives
\* first_breach=2h, first_duration=2h, next_breach=6h, next_duration=1h.
C7_NextDuration ==
    /\ (OdDone /\ NextCandidates(mask) # {}) =>
        od.next_duration_hours =
            {EpisodeDuration(mask, time_coords, NextIdx(mask))}
    /\ (BatchDone /\ NextCandidates(mask) # {}) =>
        batch.next_duration_hours =
            {EpisodeDuration(mask, time_coords, NextIdx(mask))}
    /\ (OdDone /\ IsScenarioA) =>
        /\ OdOffsets(od.first_breach_time) = {2 * SecondsPerHour}
        /\ od.duration_hours = {2}
        /\ OdOffsets(od.next_breach_time) = {6 * SecondsPerHour}
        /\ od.next_duration_hours = {1}
    /\ (BatchDone /\ IsScenarioA) =>
        /\ batch.first_breach_time = {2 * SecondsPerHour}
        /\ batch.duration_hours = {2}
        /\ batch.next_breach_time = {6 * SecondsPerHour}
        /\ batch.next_duration_hours = {1}

\* C8: for an all-true mask of any length N >= 1, first_breach is
\* offsets[0], first_duration is the elapsed time from offsets[0] to
\* offsets[N-1] and next_breach is null (either mode); for N = 1 the first
\* duration is 0.
C8_AllTrueMask ==
    /\ (OdDone /\ AllTrue(mask)) =>
        /\ OdOffsets(od.first_breach_time) = {time_coords[0]}
        /\ od.duration_hours = {TotalSpan}
        /\ od.next_breach_time = None
        /\ len(mask) = 1 => od.duration_hours = {0}
    /\ (BatchDone /\ AllTrue(mask)) =>
        /\ batch.first_breach_time = {time_coords[0]}
        /\ batch.duration_hours = {TotalSpan}
        /\ batch.next_breach_time = NaT
        /\ len(mask) = 1 => batch.duration_hours = {0}

\* C9: for an all-false mask of any length N >= 1, all four result fields
\* are null (either mode).
C9_AllFalseMask ==
    /\ (OdDone /\ AllFalse(mask)) =>
        /\ od.first_breach_time = None
        /\ od.duration_hours = None
        /\ od.next_breach_time = None
        /\ od.next_duration_hours = None
    /\ (BatchDone /\ AllFalse(mask)) =>
        /\ batch.first_breach_time = NaT
        /\ batch.duration_hours = NaN
        /\ batch.next_breach_time = NaT
        /\ batch.next_duration_hours = NaN

\* C9 witness: both engines have evaluated an all-false mask of several
\* samples.
C9_Witness ==
    /\ OdDone /\ BatchDone
    /\ AllFalse(mask)
    /\ len(mask) >= 3

\* C10: in every result produced by either mode, first_duration and
\* next_duration, when non-null, are >= 0 and no larger than the series'
\* total span (last offset minus first offset).
C10_DurationsWithinSpan ==
    /\ OdDone =>
        \A d \in od.duration_hours \cup od.next_duration_hours :
            d >= 0 /\ d <= TotalSpan
    /\ BatchDone =>
        \A d \in batch.duration_hours \cup batch.next_duration_hours :
            d >= 0 /\ d <= TotalSpan

----------------------------------------------------------------------------
(* Claims on the condition evaluation and on malformed series (SpecEval) *)

KnownOperators == {"lt", "gt", "lte", "gte", "eq"}

\* the comparison an operator stands for, on a present value
Satisfies(op, v, thr) ==
    \/ op = "lt" /\ v < thr
    \/ op = "gt" /\ v > thr
    \/ op = "lte" /\ ~(v > thr)
    \/ op = "gte" /\ ~(v < thr)
    \/ op = "eq" /\ thr - Tolerance < v /\ v < thr + Tolerance

\* a mask is the evaluation of the condition over the values
IsEvaluationOf(m, vals, thr, op) ==
    /\ DOMAIN m = DOMAIN vals
    /\ \A i \in DOMAIN vals :
        m[i] <=> (vals[i] # Missing /\ Satisfies(op, vals[i].v, thr))

IsScenarioC ==
    /\ values = ScenarioCValues
    /\ threshold = FreezingThreshold
    /\ operator = "lt"

ScenarioCMask == [i \in 0..3 |-> i \in {1, 2}]

StrictlyIncreasing(coords) ==
    \A i \in DOMAIN coords : \A j \in DOMAIN coords :
        i < j => coords[i] < coords[j]

\* C11: for each of the five operators the evaluated breach mask has the
\* length of the value sequence and is index-aligned with it, mask[i] is
\* true exactly when values[i] is present and satisfies the comparison
\* against the threshold, a Missing sample always yields false (on demand
\* and in compute_mask); lt 263.15 over [265, 260, 261, 270] is [F,T,T,F].
C11_MaskIsEvaluation ==
    /\ od_pc = "done" =>
        /\ operator \in KnownOperators
        /\ IsEvaluationOf(mask, values, threshold, operator)
        /\ IsScenarioC => mask = ScenarioCMask
    /\ batch_pc = "masked" =>
        /\ operator \in KnownOperators
        /\ IsEvaluationOf(batch_mask, values, threshold, operator)
        /\ IsScenarioC => batch_mask = ScenarioCMask

\* C11 witness: both evaluations have run over a series holding a Missing
\* sample, a sample equal to the threshold and one a tick away from it.
C11_Witness ==
    /\ od_pc = "done" /\ batch_pc = "masked"
    /\ len(values) = 3
    /\ \E i \in DOMAIN values : values[i] = Missing /\ ~mask[i] /\ ~batch_mask[i]
    /\ \E i \in DOMAIN values : values[i] = Num(threshold)
    /\ \E i \in DOMAIN values : values[i] = Num(threshold + 1)

\* C12: the engine fails with an empty-series error when given a mask and
\* offsets of length 0, rather than returning a result.
C12_EmptySeriesFails ==
    (od_pc # "idle" /\ len(values) = 0) => od_pc = "raised"

\* C13: when the offsets of a series are not strictly increasing, the
\* engine fails fast with an unordered-series error instead of returning a
\* first-breach time and durations.
C13_UnorderedSeriesFails ==
    (od_pc # "idle" /\ ~StrictlyIncreasing(time_coords)) => od_pc = "raised"

----------------------------------------------------------------------------
(* Claims about the API process, checked on SpecApi. Each is a predicate on *)
(* the last call (req), its response (resp) and what it did (trace).        *)

IsQuery == req.op = "query"
IsGet == req.op = "get_arraylake_dataset"
KnownEvent == req.event_id \in DOMAIN EVENTS
Cache == <<_arraylake_ds, _arraylake_session, _last_refresh>>
SnappedLat == nearest(GridLats, req.lat)
SnappedLon == nearest(GridLons, req.lon)

\* C14: an operator outside {lt, gt, lte, gte, eq} is rejected before any
\* series is processed: an on-demand query of an event configured with such
\* an operator fails without the data source having been contacted and
\* without a point series having been loaded.
C14_OperatorRejectedFirst ==
    (IsQuery /\ on_demand_mode /\ KnownEvent
        /\ EVENTS[req.event_id].operator \notin KnownOperators)
    => /\ resp.status # 200
       /\ ~trace.contacted
       /\ ~trace.loaded

\* C15: a /query request with an event id outside the registry is answered
\* with HTTP 400 before any extraction or computation: the data source is
\* not contacted, no series is loaded, no timing is returned, and the
\* dataset cache is what it was before the request.
C15_UnknownEventRejected ==
    (IsQuery /\ ~KnownEvent)
    => /\ resp.status = 400
       /\ resp.timing = NoResult
       /\ trace.failed_at = "event"
       /\ ~trace.contacted
       /\ ~trace.loaded
       /\ Cache = trace.cache_before

\* an unknown event id arrives when the cache holds a handle that has
\* expired, so that a computation would have refreshed it
C15_Witness ==
    /\ IsQuery
    /\ ~KnownEvent
    /\ resp.status = 400
    /\ on_demand_mode /\ token_set /\ upstream_up
    /\ _arraylake_ds # None
    /\ \E t \in _last_refresh : req.at - t > CACHE_TTL_SECONDS

\* C16: when the nearest-point selection fails, the /query request is
\* answered with HTTP 400, in the on-demand and in the pre-computed path.
C16_SelFailureIsClientError ==
    (IsQuery /\ trace.failed_at = "sel") => resp.status = 400

\* the event's variable is absent from the data the request is served from
VariableAbsent ==
    IF on_demand_mode
    THEN EVENTS[req.event_id].variable \notin source_vars
    ELSE PrecomputedVar(req.event_id, "first_breach_time") \notin app_dataset.vars

\* C17: when the event's variable is absent from the data source, the
\* /query request is answered with HTTP 500 whose detail carries the reason
\* of the failure, and no timing result, in both paths; a request that got
\* as far as the variable check names the missing variable as the reason.
C17_MissingVariableIsServerError ==
    (IsQuery /\ KnownEvent /\ VariableAbsent)
    => /\ resp.status = 500
       /\ Len(resp.detail) = 2 /\ resp.detail[2] # ""
       /\ resp.timing = NoResult
       /\ (trace.failed_at = "variable"
             => resp.detail[2] \in {"Variable not found in dataset",
                                    "first_breach_time"})

\* the on-demand path opened the dataset, selected the point and found the
\* variable missing
C17_Witness ==
    /\ IsQuery /\ KnownEvent /\ VariableAbsent
    /\ on_demand_mode
    /\ trace.contacted
    /\ trace.failed_at = "variable"
    /\ resp.status = 500

\* the timing the response must carry: of the series at the snapped point
SnappedTiming ==
    IF on_demand_mode
    THEN \E run \in 0..MaxRun :
            /\ resp.forecastInitTime = Some(SecondsPerHour * run)
            /\ LET t == compute_event_metrics(
                            od_mask(SourceData(run, SnappedLat, SnappedLon),
                                    threshold, operator).mask,
                            StepCoords, SecondsPerHour * run)
               IN  resp.timing =
                       [first_breach_time |-> t.first_breach_time,
                        duration_hours |-> t.duration_hours,
                        next_breach_time |-> t.next_breach_time,
                        next_duration_hours |-> t.next_duration_hours]
    ELSE resp.timing.first_breach_time
            = PrecomputedCell(SnappedLat, SnappedLon).first_breach_time

\* C19: a successful /query response reports as its location the grid point
\* nearest to the requested coordinates, whose series produced the timing,
\* in both paths.
C19_ReportsSnappedPoint ==
    (IsQuery /\ resp.status = 200)
    => /\ resp.latitude = Some(SnappedLat)
       /\ resp.longitude = Some(SnappedLon)
       /\ SnappedTiming

\* a successful on-demand response to a request off the grid
C19_Witness ==
    /\ IsQuery
    /\ resp.status = 200
    /\ on_demand_mode
    /\ req.lat # SnappedLat
    /\ req.lon # SnappedLon
    /\ resp.latitude = Some(SnappedLat)

\* the cache before the call held a handle refreshed no more than the TTL
\* before the call
WasFresh ==
    /\ trace.cache_before[1] # None
    /\ trace.cache_before[3] # None
    /\ \A t \in trace.cache_before[3] : req.at - t <= CACHE_TTL_SECONDS

ReturnedCached ==
    /\ resp.error = ""
    /\ resp.ds = trace.cache_before[1]
    /\ ~trace.contacted
    /\ Cache = trace.cache_before

Refreshed ==
    /\ resp.error = ""
    /\ trace.contacted
    /\ \E d \in _arraylake_ds : d.opened_at = req.at
    /\ \E c \in _arraylake_session : c.opened_at = req.at
    /\ resp.ds = _arraylake_ds
    /\ _last_refresh = Some(req.at)

RefreshFailed ==
    /\ resp.error # ""
    /\ resp.ds = None
    /\ Cache = trace.cache_before

\* C20 as stated: a call of get_arraylake_dataset made no more than 300 s
\* after the last successful refresh returns the cached handle without
\* reconnecting; any other call reconnects, replaces the handle and sets
\* the last-refresh time to the call's time.
C20_AsStated ==
    IsGet => IF WasFresh THEN ReturnedCached ELSE Refreshed

\* C20: a call of get_arraylake_dataset made no more than 300 s after the
\* last successful refresh returns the cached handle without reconnecting;
\* any other call attempts a refresh, which either succeeds, replacing the
\* handle and setting the last-refresh time to the call's time, or raises
\* and leaves the handle and the last-refresh time as they were; without a
\* token the refresh raises before connecting.
C20_CacheTTL ==
    IsGet => IF WasFresh
             THEN ReturnedCached
             ELSE /\ Refreshed \/ RefreshFailed
                  /\ token_set => trace.contacted
                  /\ ~token_set => RefreshFailed /\ ~trace.contacted

\* a handle refreshed at 0 is found expired by a call at 301 s and replaced
C20_Witness ==
    /\ IsGet
    /\ trace.cache_before[3] = Some(0)
    /\ req.at = CACHE_TTL_SECONDS + 1
    /\ Refreshed
    /\ _arraylake_ds # trace.cache_before[1]

\* a handle refreshed at 0 is returned as cached by a call at 300 s
C20_FreshAtTTL ==
    /\ IsGet
    /\ trace.cache_before[3] = Some(0)
    /\ req.at = CACHE_TTL_SECONDS
    /\ ReturnedCached

----------------------------------------------------------------------------
(* Claims about the batch pipeline, checked on SpecBatch *)

\* C18: when the source holds several runs, extraction uses only the run
\* with the greatest initialization timestamp: the dataset a batch run
\* computed from the repository holds results of that run and of no other.
C18_BatchUsesLatestRun ==
    (process_log.called /\ ~process_log.use_mock /\ output_path # None)
    => \A o \in output_ds : o.runs = {Max(process_log.fetched_runs)}

----------------------------------------------------------------------------
(* Failure of a refresh, checked on SpecApi *)

\* the last call ran into a refresh of the cache that raised
RefreshRaised ==
    \/ IsGet /\ resp.error # ""
    \/ IsQuery /\ trace.failed_at = "dataset"

\* C30: when a refresh attempt of get_arraylake_dataset fails, the handle,
\* the session and the last-refresh time are left as they were before the
\* call, the caller gets the error and no handle, and the cache is still
\* expired afterwards, so that the next call attempts the refresh again.
C30_FailedRefreshLeavesCache ==
    RefreshRaised
    => /\ Cache = trace.cache_before
       /\ IsGet => resp.ds = None
       /\ IsQuery => resp.status = 500 /\ resp.timing = NoResult
       /\ cache_expired

\* the connection fails while an expired handle is still cached
C30_Witness ==
    /\ IsGet
    /\ resp.error = "arraylake connection failed"
    /\ trace.cache_before[1] # None
    /\ _arraylake_ds = trace.cache_before[1]
    /\ resp.ds = None

----------------------------------------------------------------------------
(* The null encoding of the batch result, checked on Spec *)

\* C26: in the batch result of a grid cell, first_breach_time is NaT and
\* duration_hours is NaN exactly when the mask has no true sample, and
\* next_breach_time is NaT and next_duration_hours is NaN exactly when no
\* true sample lies at or after the end of the first episode; a cell
\* without a breach carries neither a timestamp nor a duration.
C26_BatchSentinels ==
    BatchDone =>
        /\ (batch.first_breach_time = NaT) <=> ~AnyTrue(mask)
        /\ (batch.duration_hours = NaN) <=> ~AnyTrue(mask)
        /\ (batch.next_breach_time = NaT) <=> (NextCandidates(mask) = {})
        /\ (batch.next_duration_hours = NaN) <=> (NextCandidates(mask) = {})
        /\ \A f \in {"first_breach_time", "duration_hours",
                     "next_breach_time", "next_duration_hours"} :
              Cardinality(batch[f]) <= 1

\* a cell whose only episode starts at offset zero: the first breach is the
\* valid timestamp 0 while the next breach is the sentinel
C26_Witness ==
    /\ BatchDone
    /\ AnyTrue(mask)
    /\ NextCandidates(mask) = {}
    /\ time_coords[0] = 0
    /\ batch.first_breach_time = Some(0)
    /\ batch.duration_hours # NaN
    /\ batch.next_breach_time = NaT
    /\ batch.next_duration_hours = NaN

----------------------------------------------------------------------------
(* The supplemental time series, checked on SpecEval *)

\* the indices of the loaded values that are finite, in increasing order
RECURSIVE FiniteIndices(_, _)
FiniteIndices(vals, i) ==
    IF i >= len(vals) THEN <<>>
    ELSE (IF vals[i].kind = "num" THEN <<i>> ELSE <<>>)
         \o FiniteIndices(vals, i + 1)

\* C27: the time series returned by compute_event_metrics holds exactly the
\* (lead time, value) pairs whose raw value is finite, in their original
\* order: both lists have the length of the finite values, entry k is the
\* lead time and the converted value of the k-th finite sample, no entry
\* is null, and both lists are empty when no value is finite.
C27_SeriesDropsNonFinite ==
    od_pc = "done" =>
        LET idx == FiniteIndices(values, 0)
            lead == time_series.lead_times_hours
            disp == time_series.values_display
        IN  /\ Len(lead) = Len(idx)
            /\ Len(disp) = Len(idx)
            /\ \A k \in 1..Len(idx) :
                /\ lead[k] = time_coords[idx[k]] \div SecondsPerHour
                /\ disp[k] = {round2(values[idx[k]].v - ZeroCelsius)}
            /\ \A k \in 1..Len(disp) : disp[k] # None
            /\ (\A i \in DOMAIN values : values[i].kind # "num")
                   => lead = <<>> /\ disp = <<>>

\* a series with a missing sample, an infinite one and a finite one after
\* them: one pair is left, the third lead time with the third value
C27_Witness ==
    /\ od_pc = "done"
    /\ len(values) = 3
    /\ values[0] = Missing
    /\ values[1] = Infinity
    /\ values[2] = Kelvin(260)
    /\ time_coords = [i \in 0..2 |-> SecondsPerHour * i]
    /\ time_series.lead_times_hours = <<2>>
    /\ time_series.values_display = <<{0 - 1315}>>

\* the configured events, and those whose metric computation ran and did
\* not raise during the last batch run
ConfiguredEvents == {WEATHER_EVENTS[i] : i \in DOMAIN WEATHER_EVENTS}

ComputationRaises(e) ==
    /\ e.variable = "2t"
    /\ \/ e.variable \notin process_log.fetched_vars
       \/ e.operator \notin KnownOperators

ComputationSucceeded(e) ==
    /\ e.variable = "2t"
    /\ ~ComputationRaises(e)

Exported == process_log.called /\ output_path # None

\* C23: after a batch run that exports output, events_processed is exactly
\* the set of the events whose metric computation succeeded, and the merged
\* output holds a variable prefixed with an event id if and only if that
\* event is in events_processed; a failed event contributes no variable.
C23_EventsProcessedIsSucceeded ==
    Exported =>
        \A o \in output_ds :
            /\ o.complete
            /\ o.events_processed =
                  {e.event_id : e \in {x \in ConfiguredEvents : ComputationSucceeded(x)}}
            /\ \A e \in ConfiguredEvents :
                  (\E v \in o.vars : v[1] = e.event_id)
                      <=> e.event_id \in o.events_processed
            /\ \A e \in ConfiguredEvents :
                  ComputationRaises(e) => ~\E v \in o.vars : v[1] = e.event_id
            /\ DOMAIN o.metrics = o.events_processed

\* the first event failed on its operator and the second one was exported
C23_Witness ==
    /\ Exported
    /\ "Unknown operator" \in process_log.errors
    /\ \E o \in output_ds :
        /\ o.events_processed = {"heat"}
        /\ \A v \in o.vars : v[1] = "heat"

\* C24: for every configured event whose metric computation does not raise,
\* a batch run that completes persists the event's four variables
\* first_breach_time, duration_hours, next_breach_time, next_duration_hours.
C24_FourVariablesPerEvent ==
    (process_log.called /\ process_log.raised = "") =>
        \A e \in ConfiguredEvents :
            ~ComputationRaises(e) =>
                \E o \in output_ds :
                    \A n \in MetricNames : PrecomputedVar(e.event_id, n) \in o.vars

\* C25: when the data source becomes unavailable during a batch run, the
\* export target is left as it was before the run (or holds the complete
\* new output), never emptied, truncated or mixed.
C25_UpstreamLossKeepsTarget ==
    (process_log.called /\ process_log.upstream_lost
        /\ \A o \in process_log.target_before : o.complete)
    => \/ output_ds = process_log.target_before
       \/ output_path # None /\ \A o \in output_ds : o.complete

\* the instant of a datetime, a naive one being read as UTC
Instant(d) == IF d.utcoffset = None THEN d.wall ELSE d.wall - (CHOOSE o \in d.utcoffset : TRUE)

\* C28: check_new_data exits with status 0 if new data is available and
\* with status 1 otherwise.
C28_ExitCodeTellsNewData ==
    check_out.called =>
        check_out.exit_code = (IF check_out.NEW_DATA = "true" THEN 0 ELSE 1)

\* C29: check_new_data prints NEW_DATA=true when no last-processed
\* timestamp can be read, when the commit time cannot be fetched, and when
\* the latest commit is strictly later than the last-processed timestamp;
\* it prints NEW_DATA=false only when a last-processed timestamp exists and
\* the latest commit is not later than it.
C29_NewDataDecision ==
    check_out.called =>
        /\ check_out.NEW_DATA \in {"true", "false"}
        /\ check_out.NEW_DATA = "true" <=>
              \/ check_out.last_processed = None
              \/ check_out.arraylake_time = None
              \/ \E c \in check_out.arraylake_time :
                 \E l \in check_out.last_processed : Instant(c) > Instant(l)

\* a run found the latest commit at the very instant last processed, the
\* two written with different offsets, and printed NEW_DATA=false
C29_Witness ==
    /\ check_out.called
    /\ check_out.NEW_DATA = "false"
    /\ \E c \in check_out.arraylake_time : \E l \in check_out.last_processed :
        /\ Instant(c) = Instant(l)
        /\ c.utcoffset # l.utcoffset
        /\ c.wall # l.wall

\* the three cache globals come from one refresh, or none was ever made
FromOneRefresh(c) ==
    \/ c = NoCache
    \/ \E d \in c[1] : \E x \in c[2] : \E t \in c[3] :
        d.opened_at = t /\ x.opened_at = t

\* C21: under every interleaving of concurrent requests with a cache
\* refresh, no request observes a handle, session and last-refresh time that
\* come from different refreshes, and a request that has obtained a handle
\* uses that handle for the rest of its processing.
C21_CacheSeenWhole ==
    \A r \in Requests :
        /\ FromOneRefresh(tasks[r].seen)
        /\ tasks[r].used # None =>
              tasks[r].used = (IF tasks[r].opened = None THEN tasks[r].seen[1]
                               ELSE {o[1] : o \in tasks[r].opened})

\* a request arrived while another one was refreshing the cache, and was
\* then served from the cache that refresh left
C21_Witness ==
    \E r \in Requests : \E s \in Requests \ {r} :
        /\ r \in tasks[s].behind
        /\ tasks[r].opened # None
        /\ tasks[r].pc = "done"
        /\ tasks[s].pc = "done"
        /\ tasks[s].used # None
        /\ tasks[s].seen[3] = Some(tasks[r].now)

\* C22: in on-demand mode the extraction and computation of one /query
\* request never delays the handling of another request that arrives while
\* it runs.
C22_ComputeDelaysNoRequest ==
    \A r \in Requests : \A s \in tasks[r].behind :
        (tasks[r].pc = "arrived" /\ tasks[s].pc = "compute")
            => ENABLED DispatchRequest(r)

====
